---- MODULE Spec2Model ----
(***************************************************************************)
(* A model of mbeumo_spelling_bot.py: the pattern matcher                  *)
(* (find_misspelling), the stats store (load_stats / save_stats / STATS)   *)
(* and the ingestion loop of main() with its signal handler.               *)
(*                                                                         *)
(* Strings of the program are sequences of one-character strings, so that  *)
(* the regular expressions (\b, re.I) and str.lower() are computed         *)
(* character by character.                                                 *)
(***************************************************************************)
EXTENDS Integers, Sequences, FiniteSets, TLC

VARIABLES
    file,                       \* content of STATS_PATH (/data/stats.json)
    STATS,                      \* the module-level STATS dict
    LIMIT_TO_SUBMISSION_TITLED, \* os.getenv("LIMIT_TO_SUBMISSION_TITLED")
    POLL_INTERVAL_SECONDS,      \* int(os.getenv("POLL_INTERVAL_SECONDS", "60"))
    poll_interval,              \* main()'s local poll_interval
    pc,                         \* position of the process in the program
    comment,                    \* the loop variable of the for statement
    misspelling,                \* the value find_misspelling returned last
    text,                       \* the argument of the last find_misspelling call
    saved,                      \* per comment: marked saved on the server
    replies,                    \* per comment: replies the bot has posted
    streamDead,                 \* the comment_stream generator has finished
    loaded,                     \* history: what load_stats returned at line 75
    io                          \* what the last step did: feed result, sleep, prints

vars == <<file, STATS, LIMIT_TO_SUBMISSION_TITLED, POLL_INTERVAL_SECONDS,
          poll_interval, pc, comment, misspelling, text, saved, replies,
          streamDead, loaded, io>>

-----------------------------------------------------------------------------
(* Bounds of the model *)

\* longest input text of the matcher specification, in vocabulary pieces
MaxPieces == 3

\* replies the bot posts in one run
MaxReplies == 2

-----------------------------------------------------------------------------
(* Characters, str.lower(), \w and \b *)

UpperToLower ==
    [c \in {"A", "B", "E", "M", "O", "T", "U", "X"} |->
        CASE c = "A" -> "a" [] c = "B" -> "b" [] c = "E" -> "e"
          [] c = "M" -> "m" [] c = "O" -> "o" [] c = "T" -> "t"
          [] c = "U" -> "u" [] c = "X" -> "x"]

\* str.lower() on one character
LowerChar(c) == IF c \in DOMAIN UpperToLower THEN UpperToLower[c] ELSE c

\* str.lower()
Lower(s) == [i \in 1..Len(s) |-> LowerChar(s[i])]

\* \w of the re module: letters, digits and the underscore
IsWordChar(c) ==
    c \in {"a", "b", "e", "m", "n", "o", "t", "u", "w", "x",
           "A", "B", "E", "M", "O", "T", "U", "X", "_", "7"}

\* whether position i of s (1..Len(s)) holds a word character; outside: no
WordAt(s, i) == i >= 1 /\ i <= Len(s) /\ IsWordChar(s[i])

\* \b between s[i] and s[i+1], for i in 0..Len(s)
Boundary(s, i) == WordAt(s, i) # WordAt(s, i + 1)

\* re.compile(r"\b<word>\b", re.I).match at start position p
MatchAt(word, s, p) ==
    /\ p >= 1
    /\ p + Len(word) - 1 <= Len(s)
    /\ Boundary(s, p - 1)
    /\ \A k \in 1..Len(word) : LowerChar(s[p + k - 1]) = LowerChar(word[k])
    /\ Boundary(s, p + Len(word) - 1)

RECURSIVE SearchFrom(_, _, _)
\* re.search scanning from position p: the leftmost start of a match, or 0
SearchFrom(word, s, p) ==
    IF p > Len(s) THEN 0
    ELSE IF MatchAt(word, s, p) THEN p
    ELSE SearchFrom(word, s, p + 1)

\* pattern.search(text): the leftmost start of a match, or 0 (no match)
Search(word, s) == SearchFrom(word, s, 1)

\* the substring test  a in b  of Python
Contains(a, b) ==
    \E p \in 1..(Len(b) + 1) :
        /\ p + Len(a) - 1 <= Len(b)
        /\ \A k \in 1..Len(a) : b[p + k - 1] = a[k]

-----------------------------------------------------------------------------
(* Pattern matcher *)

\* the words between \b and \b of MISSPELLINGS_RAW, in list order
MISSPELLINGS_RAW ==
    << <<"m", "b", "u", "e", "m", "o">>,
       <<"m", "b", "e", "u", "e", "m", "o">>,
       <<"m", "b", "e", "u", "o", "m", "o">>,
       <<"m", "b", "e", "u", "o", "n", "o">>,
       <<"m", "b", "e", "o", "u", "m", "o">>,
       <<"m", "b", "o", "o", "m", "o">>,
       <<"m", "b", "e", "e", "m", "o">>,
       <<"m", "b", "e", "u", "n", "o">>,
       <<"m", "e", "u", "b", "o", "m", "o">>,
       <<"m", "b", "o", "m", "a">>,
       <<"m", "b", "u", "m", "e", "o">>,
       <<"m", "b", "e", "w", "m", "o", "e">> >>

\* the compiled list; compilation (\b...\b, re.I) is what MatchAt computes
MISSPELLINGS == MISSPELLINGS_RAW

CORRECT_NAME == <<"M", "b", "e", "u", "m", "o">>

\* Python's None, and a returned str
None == [some |-> FALSE, str |-> <<>>]
Some(s) == [some |-> TRUE, str |-> s]

RECURSIVE FirstPattern(_, _)
\* the for loop over MISSPELLINGS from index i: the first pattern that matches
FirstPattern(s, i) ==
    IF i > Len(MISSPELLINGS) THEN None
    ELSE LET p == Search(MISSPELLINGS[i], s)
         IN  IF p # 0
             THEN Some(SubSeq(s, p, p + Len(MISSPELLINGS[i]) - 1))
             ELSE FirstPattern(s, i + 1)

\* find_misspelling with the correct name searched without re.I
find_misspelling_CaseSensitive(s) ==
    IF \E p \in 1..Len(s) :
          /\ MatchAt(CORRECT_NAME, s, p)
          /\ SubSeq(s, p, p + Len(CORRECT_NAME) - 1) = CORRECT_NAME
    THEN None
    ELSE FirstPattern(s, 1)

\* find_misspelling returning the match that starts first in the text
find_misspelling_Leftmost(s) ==
    IF Search(CORRECT_NAME, s) # 0 THEN None
    ELSE LET hits == {i \in 1..Len(MISSPELLINGS) : Search(MISSPELLINGS[i], s) # 0}
         IN  IF hits = {} THEN None
             ELSE LET i == CHOOSE x \in hits : \A y \in hits :
                               Search(MISSPELLINGS[x], s) <= Search(MISSPELLINGS[y], s)
                      p == Search(MISSPELLINGS[i], s)
                  IN  Some(SubSeq(s, p, p + Len(MISSPELLINGS[i]) - 1))

\* find_misspelling returning the match in lower case
find_misspelling_Lowercased(s) ==
    IF Search(CORRECT_NAME, s) # 0 THEN None
    ELSE LET r == FirstPattern(s, 1)
         IN  IF r.some THEN Some(Lower(r.str)) ELSE None

find_misspelling(s) ==
    IF Search(CORRECT_NAME, s) # 0 THEN None
    ELSE FirstPattern(s, 1)

-----------------------------------------------------------------------------
(* JSON values of the stats store *)

EmptyDict == [k \in {} |-> 0]

\* values in memory: an int, a str, a dict of str -> int, or a list
IntVal(n) == [ty |-> "int", n |-> n, s |-> "", d |-> EmptyDict]
StrVal(s) == [ty |-> "str", n |-> 0, s |-> s, d |-> EmptyDict]
DictVal(d) == [ty |-> "dict", n |-> 0, s |-> "", d |-> d]
ListVal == [ty |-> "list", n |-> 0, s |-> "", d |-> EmptyDict]

RECURSIVE MapToPairs(_)
\* json.dump of a dict: its items written one after the other as key: value
MapToPairs(d) ==
    IF DOMAIN d = {} THEN <<>>
    ELSE LET k == CHOOSE x \in DOMAIN d : TRUE
         IN  <<<<k, d[k]>>>> \o MapToPairs([x \in DOMAIN d \ {k} |-> d[x]])

\* json.load of an object: the items read into a dict, a repeated key keeping
\* its last value
PairsToMap(m) ==
    [k \in {m[i][1] : i \in 1..Len(m)} |->
        m[CHOOSE i \in 1..Len(m) :
            /\ m[i][1] = k
            /\ \A j \in (i + 1)..Len(m) : m[j][1] # k][2]]

\* one value as json.dump writes it, and as json.load reads it back
DumpVal(v) == [ty |-> v.ty, n |-> v.n, s |-> v.s, m |-> MapToPairs(v.d)]
LoadVal(w) == [ty |-> w.ty, n |-> w.n, s |-> w.s, d |-> PairsToMap(w.m)]

\* json.dump(stats, f): the members of the top-level object
json_dump(stats) ==
    LET pairs == MapToPairs(stats)
    IN  [i \in 1..Len(pairs) |-> <<pairs[i][1], DumpVal(pairs[i][2])>>]

\* json.load(f) of a file holding an object
json_load(members) ==
    LET raw == PairsToMap(members)
    IN  [k \in DOMAIN raw |-> LoadVal(raw[k])]

\* dict.setdefault(k, v), as the resulting dict
setdefault(d, k, v) ==
    [x \in DOMAIN d \cup {k} |-> IF x \in DOMAIN d THEN d[x] ELSE v]

\* datetime.now(timezone.utc).isoformat() during this run
Now == StrVal("now")

\* the fresh stats of lines 60-64
FreshStats ==
    [k \in {"start_time", "total_corrections", "misspellings"} |->
        CASE k = "start_time" -> Now
          [] k = "total_corrections" -> IntVal(0)
          [] k = "misspellings" -> DictVal(EmptyDict)]

(* The file at STATS_PATH: missing; present but open() raises; present with   *)
(* content json.load rejects; content that is JSON but no object (setdefault   *)
(* then raises AttributeError); or a JSON object with its members.            *)
FileOf(kind, members) == [kind |-> kind, members |-> members]

load_stats(f) ==
    IF f.kind = "missing" THEN FreshStats
    ELSE IF f.kind \in {"unreadable", "invalid", "nonobject"}
         THEN FreshStats     \* except Exception: pass, fall through
    ELSE LET data == json_load(f.members)
         IN  setdefault(
                 setdefault(
                     setdefault(data, "start_time", Now),
                     "total_corrections", IntVal(0)),
                 "misspellings", DictVal(EmptyDict))

\* what a call of save_stats meets: the write succeeds, open("w") raises, or
\* open succeeds (truncating the file) and the write raises
SaveOutcomes == {"ok", "open_fails", "write_fails"}

\* save_stats writing the per-misspelling counts only
save_stats_OnlyCounts(stats, f, outcome) ==
    CASE outcome = "ok" ->
            [file |-> FileOf("object",
                             << <<"misspellings", DumpVal(stats["misspellings"])>> >>),
             printed |-> <<>>]
      [] outcome = "open_fails" ->
            [file |-> f, printed |-> <<"stats_failed">>]
      [] outcome = "write_fails" ->
            [file |-> FileOf("invalid", <<>>), printed |-> <<"stats_failed">>]

\* save_stats(stats) on file f: the file afterwards and what it printed
save_stats(stats, f, outcome) ==
    CASE outcome = "ok" ->
            [file |-> FileOf("object", json_dump(stats)), printed |-> <<>>]
      [] outcome = "open_fails" ->
            [file |-> f, printed |-> <<"stats_failed">>]
      [] outcome = "write_fails" ->
            [file |-> FileOf("invalid", <<>>), printed |-> <<"stats_failed">>]

RECURSIVE SumCounts(_)
\* sum(misspellings.values())
SumCounts(d) ==
    IF DOMAIN d = {} THEN 0
    ELSE LET k == CHOOSE x \in DOMAIN d : TRUE
         IN  d[k] + SumCounts([x \in DOMAIN d \ {k} |-> d[x]])

-----------------------------------------------------------------------------
(* The environment: stats files found at startup, configuration, comments *)

KeyMbuemo == MISSPELLINGS_RAW[1]
KeyMboma == MISSPELLINGS_RAW[10]

\* a stats file holding a JSON object with the three members
StatsObject(total, mis) ==
    FileOf("object",
           << <<"start_time", DumpVal(StrVal("t0"))>>,
              <<"total_corrections", DumpVal(total)>>,
              <<"misspellings", DumpVal(mis)>> >>)

\* the stats files the program may find when it starts
InitialFiles ==
    { FileOf("missing", <<>>),
      FileOf("unreadable", <<>>),
      FileOf("invalid", <<>>),
      FileOf("nonobject", <<>>),
      \* written by an earlier run after a completed update
      StatsObject(IntVal(1), DictVal([k \in {KeyMbuemo} |-> 1])),
      \* total and counts disagree
      StatsObject(IntVal(2), DictVal(EmptyDict)),
      \* an object without total_corrections and misspellings
      FileOf("object", << <<"start_time", DumpVal(StrVal("t0"))>> >>),
      \* wrongly typed members
      StatsObject(StrVal("7"), DictVal(EmptyDict)),
      StatsObject(IntVal(0), ListVal) }

\* values of POLL_INTERVAL_SECONDS
ConfiguredIntervals == {5, 60}

\* values of LIMIT_TO_SUBMISSION_TITLED: unset, or a title substring
ConfiguredLimits == {None, Some(<<"T", "a">>)}

\* reddit.user.me().name
BotName == <<"b", "o", "t">>

\* the comments of the subreddit: submission title (None or str), author name
\* (None for a deleted account) and body
CommentTable ==
    << [title |-> Some(<<"x", "t", "A">>), author |-> Some(<<"a">>),
        body |-> <<"M", "b", "u", "e", "m", "o", "!">>],
       [title |-> Some(<<"x", "t", "A">>), author |-> Some(<<"a">>),
        body |-> <<"m", "b", "o", "m", "a", " ", "m", "b", "u", "e", "m", "o">>],
       [title |-> Some(<<"a", "t">>), author |-> Some(<<"a">>),
        body |-> <<"M", "B", "O", "M", "A">>],
       [title |-> Some(<<"T", "a">>), author |-> Some(<<"B", "o", "t">>),
        body |-> <<"m", "b", "u", "e", "m", "o">>],
       [title |-> None, author |-> None,
        body |-> <<"M", "b", "e", "u", "m", "o", " ", "m", "b", "u", "e", "m", "o">>] >>

Comments == 1..Len(CommentTable)

\* the for loop's variable when the stream yielded None, or before the loop
NoComment == 0

RECURSIVE SumReplies(_)
SumReplies(S) ==
    IF S = {} THEN 0
    ELSE LET c == CHOOSE x \in S : TRUE IN replies[c] + SumReplies(S \ {c})

\* replies posted so far in this run
TotalReplies == SumReplies(Comments)

-----------------------------------------------------------------------------
(* What a step does to the outside: the feed's answer, sleeping, printing *)

Effect(feed, slept, printed) == [feed |-> feed, slept |-> slept, printed |-> printed]
Quiet == Effect("", 0, <<>>)

\* the floor of lines 104-106 and the sleep of line 168
MIN_POLL_INTERVAL == 10
ERROR_SLEEP == 60

LoopPcs ==
    {"for", "sleep_poll", "filter", "self_check", "match", "reply",
     "save_comment", "incr_total", "incr_key", "save_stats", "except"}

-----------------------------------------------------------------------------
(* Startup *)

Init ==
    /\ file \in InitialFiles
    /\ LIMIT_TO_SUBMISSION_TITLED \in ConfiguredLimits
    /\ POLL_INTERVAL_SECONDS \in ConfiguredIntervals
    /\ STATS = <<>>
    /\ loaded = <<>>
    /\ poll_interval = 0
    /\ pc = "import"
    /\ comment = NoComment
    /\ misspelling = None
    /\ text = <<>>
    /\ saved = [c \in Comments |-> FALSE]
    /\ replies = [c \in Comments |-> 0]
    /\ streamDead = FALSE
    /\ io = Quiet

\* line 75: STATS = load_stats()
ImportModule ==
    /\ pc = "import"
    /\ STATS' = load_stats(file)
    /\ loaded' = load_stats(file)
    /\ pc' = "main"
    /\ io' = Quiet
    /\ UNCHANGED <<file, LIMIT_TO_SUBMISSION_TITLED, POLL_INTERVAL_SECONDS, poll_interval, comment,
                   misspelling, text, saved, replies, streamDead>>

\* lines 103-106 without the floor
EffectiveInterval_NoFloor(v) == v

\* lines 103-106
EffectiveInterval(v) == IF v < MIN_POLL_INTERVAL THEN MIN_POLL_INTERVAL ELSE v

\* lines 93-125: configuration, the signal handlers, the comment stream
MainSetup ==
    /\ pc = "main"
    /\ LET v == POLL_INTERVAL_SECONDS IN
        /\ poll_interval' = EffectiveInterval(v)
        /\ io' = Effect("", 0, IF v < MIN_POLL_INTERVAL
                               THEN <<"warn", "watching">> ELSE <<"watching">>)
    /\ pc' = "for"
    /\ UNCHANGED <<file, STATS, LIMIT_TO_SUBMISSION_TITLED, POLL_INTERVAL_SECONDS, comment, misspelling,
                   text, saved, replies, streamDead, loaded>>

-----------------------------------------------------------------------------
(* The ingestion loop, lines 127-168 *)

(* comment_stream is created once, at line 125, and is a generator          *)
(* (subreddit.stream.comments). The for statement of line 129 asks it for   *)
(* its next item each time round. An exception raised inside a generator    *)
(* finishes it: every later request raises StopIteration, which ends the    *)
(* for statement normally, and while True starts it again.                  *)

\* line 129: the stream yields a comment
StreamYield ==
    /\ pc = "for"
    /\ ~streamDead
    /\ \E c \in Comments : comment' = c
    /\ pc' = "filter"
    /\ io' = Effect("item", 0, <<>>)
    /\ UNCHANGED <<file, STATS, LIMIT_TO_SUBMISSION_TITLED, POLL_INTERVAL_SECONDS, poll_interval,
                   misspelling, text, saved, replies, streamDead, loaded>>

\* lines 129-130: the stream yields None (pause_after=0: nothing new)
StreamPause ==
    /\ pc = "for"
    /\ ~streamDead
    /\ comment' = NoComment
    /\ pc' = "sleep_poll"
    /\ io' = Effect("none", 0, <<>>)
    /\ UNCHANGED <<file, STATS, LIMIT_TO_SUBMISSION_TITLED, POLL_INTERVAL_SECONDS, poll_interval,
                   misspelling, text, saved, replies, streamDead, loaded>>

\* line 129: the request to the feed fails inside the generator
StreamRaises ==
    /\ pc = "for"
    /\ ~streamDead
    /\ streamDead' = TRUE
    /\ pc' = "except"
    /\ io' = Effect("error", 0, <<>>)
    /\ UNCHANGED <<file, STATS, LIMIT_TO_SUBMISSION_TITLED, POLL_INTERVAL_SECONDS, poll_interval, comment,
                   misspelling, text, saved, replies, loaded>>

\* lines 127-129: the finished generator raises StopIteration; the for
\* statement ends and while True runs it again
StreamStopped ==
    /\ pc = "for"
    /\ streamDead
    /\ pc' = "for"
    /\ io' = Effect("stopped", 0, <<>>)
    /\ UNCHANGED <<file, STATS, LIMIT_TO_SUBMISSION_TITLED, POLL_INTERVAL_SECONDS, poll_interval, comment,
                   misspelling, text, saved, replies, streamDead, loaded>>

\* lines 132-133: time.sleep(poll_interval); break
SleepPoll ==
    /\ pc = "sleep_poll"
    /\ io' = Effect("", poll_interval, <<>>)
    /\ pc' = "for"
    /\ UNCHANGED <<file, STATS, LIMIT_TO_SUBMISSION_TITLED, POLL_INTERVAL_SECONDS, poll_interval, comment,
                   misspelling, text, saved, replies, streamDead, loaded>>

\* line 137: if LIMIT_TO_SUBMISSION_TITLED (None and "" are false)
FilterConfigured ==
    LIMIT_TO_SUBMISSION_TITLED.some /\ LIMIT_TO_SUBMISSION_TITLED.str # <<>>

\* lines 139-140: whether the title filter excludes comment c
FilteredOut(c) ==
    LET title == CommentTable[c].title
        thread_title == Lower(IF title.some THEN title.str ELSE <<>>)
    IN  /\ FilterConfigured
        /\ ~Contains(Lower(LIMIT_TO_SUBMISSION_TITLED.str), thread_title)

\* line 144 comparing the names as written, without .lower()
IsSelf_CaseSensitive(c) ==
    LET author == CommentTable[c].author
    IN  author.some /\ author.str = BotName

\* line 144: whether comment c is the bot's own
IsSelf(c) ==
    LET author == CommentTable[c].author
    IN  author.some /\ Lower(author.str) = Lower(BotName)

\* lines 135-141 with line 135 assigning {} instead of setdefault
Filter_ResetsCounts ==
    /\ pc = "filter"
    /\ STATS' = [STATS EXCEPT !["misspellings"] = DictVal(EmptyDict)]
    /\ pc' = IF FilteredOut(comment) THEN "for" ELSE "self_check"
    /\ io' = Quiet
    /\ UNCHANGED <<file, LIMIT_TO_SUBMISSION_TITLED, POLL_INTERVAL_SECONDS, poll_interval, comment,
                   misspelling, text, saved, replies, streamDead, loaded>>

\* lines 135-141, the comment passing the filter or excluded by it
Filter ==
    /\ pc = "filter"
    /\ STATS' = setdefault(STATS, "misspellings", DictVal(EmptyDict))
    /\ pc' = IF FilteredOut(comment) THEN "for" ELSE "self_check"
    /\ io' = Quiet
    /\ UNCHANGED <<file, LIMIT_TO_SUBMISSION_TITLED, POLL_INTERVAL_SECONDS, poll_interval, comment,
                   misspelling, text, saved, replies, streamDead, loaded>>

\* lines 135-139, comment.submission.title raising (the submission is fetched)
FilterRaises ==
    /\ pc = "filter"
    /\ FilterConfigured
    /\ STATS' = setdefault(STATS, "misspellings", DictVal(EmptyDict))
    /\ pc' = "except"
    /\ io' = Quiet
    /\ UNCHANGED <<file, LIMIT_TO_SUBMISSION_TITLED, POLL_INTERVAL_SECONDS, poll_interval, comment,
                   misspelling, text, saved, replies, streamDead, loaded>>

\* lines 144-145
SelfCheck ==
    /\ pc = "self_check"
    /\ pc' = IF IsSelf(comment) THEN "for" ELSE "match"
    /\ io' = Quiet
    /\ UNCHANGED <<file, STATS, LIMIT_TO_SUBMISSION_TITLED, POLL_INTERVAL_SECONDS, poll_interval, comment,
                   misspelling, text, saved, replies, streamDead, loaded>>

\* line 144, reddit.user.me() raising (evaluated when the comment has an author)
SelfCheckRaises ==
    /\ pc = "self_check"
    /\ CommentTable[comment].author.some
    /\ pc' = "except"
    /\ io' = Quiet
    /\ UNCHANGED <<file, STATS, LIMIT_TO_SUBMISSION_TITLED, POLL_INTERVAL_SECONDS, poll_interval, comment,
                   misspelling, text, saved, replies, streamDead, loaded>>

\* lines 147-149
Match ==
    /\ pc = "match"
    /\ text' = CommentTable[comment].body
    /\ misspelling' = find_misspelling(CommentTable[comment].body)
    /\ pc' = IF misspelling' = None \/ saved[comment] THEN "for" ELSE "reply"
    /\ io' = Quiet
    /\ UNCHANGED <<file, STATS, LIMIT_TO_SUBMISSION_TITLED, POLL_INTERVAL_SECONDS, poll_interval, comment,
                   saved, replies, streamDead, loaded>>

\* lines 152-153, the reply posted
Reply ==
    /\ pc = "reply"
    /\ TotalReplies < MaxReplies
    /\ replies' = [replies EXCEPT ![comment] = @ + 1]
    /\ pc' = "save_comment"
    /\ io' = Quiet
    /\ UNCHANGED <<file, STATS, LIMIT_TO_SUBMISSION_TITLED, POLL_INTERVAL_SECONDS, poll_interval, comment,
                   misspelling, text, saved, streamDead, loaded>>

\* line 153 with the failure of comment.reply swallowed: line 154 runs next
ReplyRaises_Continues ==
    /\ pc = "reply"
    /\ pc' = "save_comment"
    /\ io' = Quiet
    /\ UNCHANGED <<file, STATS, LIMIT_TO_SUBMISSION_TITLED, POLL_INTERVAL_SECONDS, poll_interval, comment,
                   misspelling, text, saved, replies, streamDead, loaded>>

\* line 153, comment.reply raising
ReplyRaises ==
    /\ pc = "reply"
    /\ pc' = "except"
    /\ io' = Quiet
    /\ UNCHANGED <<file, STATS, LIMIT_TO_SUBMISSION_TITLED, POLL_INTERVAL_SECONDS, poll_interval, comment,
                   misspelling, text, saved, replies, streamDead, loaded>>

\* line 154, the comment marked saved
SaveComment ==
    /\ pc = "save_comment"
    /\ saved' = [saved EXCEPT ![comment] = TRUE]
    /\ pc' = "incr_total"
    /\ io' = Quiet
    /\ UNCHANGED <<file, STATS, LIMIT_TO_SUBMISSION_TITLED, POLL_INTERVAL_SECONDS, poll_interval, comment,
                   misspelling, text, replies, streamDead, loaded>>

\* line 154, comment.save raising
SaveCommentRaises ==
    /\ pc = "save_comment"
    /\ pc' = "except"
    /\ io' = Quiet
    /\ UNCHANGED <<file, STATS, LIMIT_TO_SUBMISSION_TITLED, POLL_INTERVAL_SECONDS, poll_interval, comment,
                   misspelling, text, saved, replies, streamDead, loaded>>

\* line 157 adding 2 for one reply
IncrTotal_ByTwo ==
    /\ pc = "incr_total"
    /\ IF STATS["total_corrections"].ty = "int"
       THEN /\ STATS' = [STATS EXCEPT !["total_corrections"] = IntVal(@.n + 2)]
            /\ pc' = "incr_key"
       ELSE /\ STATS' = STATS
            /\ pc' = "except"
    /\ io' = Quiet
    /\ UNCHANGED <<file, LIMIT_TO_SUBMISSION_TITLED, POLL_INTERVAL_SECONDS, poll_interval, comment,
                   misspelling, text, saved, replies, streamDead, loaded>>

\* line 157: STATS["total_corrections"] += 1; a value that is no number
\* raises TypeError
IncrTotal ==
    /\ pc = "incr_total"
    /\ IF STATS["total_corrections"].ty = "int"
       THEN /\ STATS' = [STATS EXCEPT !["total_corrections"] = IntVal(@.n + 1)]
            /\ pc' = "incr_key"
       ELSE /\ STATS' = STATS
            /\ pc' = "except"
    /\ io' = Quiet
    /\ UNCHANGED <<file, LIMIT_TO_SUBMISSION_TITLED, POLL_INTERVAL_SECONDS, poll_interval, comment,
                   misspelling, text, saved, replies, streamDead, loaded>>

\* lines 158-159 with the increment of line 159 left out
CountKey_SetdefaultOnly(d, key) == setdefault(d, key, 0)

\* lines 158-159 on a dict of counts
CountKey(d, key) ==
    LET withKey == setdefault(d, key, 0)
    IN  [withKey EXCEPT ![key] = @ + 1]

\* lines 158-159 counting under the form as written, without .lower()
IncrKey_KeyAsWritten ==
    /\ pc = "incr_key"
    /\ IF STATS["misspellings"].ty = "dict"
       THEN /\ STATS' = [STATS EXCEPT !["misspellings"] =
                            DictVal(CountKey(@.d, misspelling.str))]
            /\ pc' = "save_stats"
       ELSE /\ STATS' = STATS
            /\ pc' = "except"
    /\ io' = Quiet
    /\ UNCHANGED <<file, LIMIT_TO_SUBMISSION_TITLED, POLL_INTERVAL_SECONDS, poll_interval, comment,
                   misspelling, text, saved, replies, streamDead, loaded>>

\* lines 158-159: the count under misspelling.lower(); a misspellings value
\* without setdefault raises AttributeError
IncrKey ==
    /\ pc = "incr_key"
    /\ IF STATS["misspellings"].ty = "dict"
       THEN /\ STATS' = [STATS EXCEPT !["misspellings"] =
                            DictVal(CountKey(@.d, Lower(misspelling.str)))]
            /\ pc' = "save_stats"
       ELSE /\ STATS' = STATS
            /\ pc' = "except"
    /\ io' = Quiet
    /\ UNCHANGED <<file, LIMIT_TO_SUBMISSION_TITLED, POLL_INTERVAL_SECONDS, poll_interval, comment,
                   misspelling, text, saved, replies, streamDead, loaded>>

\* save_stats letting the I/O error out into the loop's except clause
SaveStats_Propagates ==
    /\ pc = "save_stats"
    /\ \E outcome \in SaveOutcomes :
        LET r == save_stats(STATS, file, outcome)
        IN  /\ file' = r.file
            /\ IF outcome = "ok"
               THEN io' = Effect("", 0, <<"corrected">>) /\ pc' = "for"
               ELSE io' = Quiet /\ pc' = "except"
    /\ UNCHANGED <<STATS, LIMIT_TO_SUBMISSION_TITLED, POLL_INTERVAL_SECONDS, poll_interval, comment,
                   misspelling, text, saved, replies, streamDead, loaded>>

\* lines 160-164: save_stats(STATS), the log line, the next turn of the loop
SaveStats ==
    /\ pc = "save_stats"
    /\ \E outcome \in SaveOutcomes :
        LET r == save_stats(STATS, file, outcome)
        IN  /\ file' = r.file
            /\ io' = Effect("", 0, r.printed \o <<"corrected">>)
    /\ pc' = "for"
    /\ UNCHANGED <<STATS, LIMIT_TO_SUBMISSION_TITLED, POLL_INTERVAL_SECONDS, poll_interval, comment,
                   misspelling, text, saved, replies, streamDead, loaded>>

\* the except clause re-raising: the process ends with a traceback
Except_Terminates ==
    /\ pc = "except"
    /\ io' = Effect("", 0, <<"error">>)
    /\ pc' = "terminated"
    /\ UNCHANGED <<file, STATS, LIMIT_TO_SUBMISSION_TITLED, POLL_INTERVAL_SECONDS, poll_interval, comment,
                   misspelling, text, saved, replies, streamDead, loaded>>

\* lines 166-168: except Exception: print, time.sleep(60)
Except ==
    /\ pc = "except"
    /\ io' = Effect("", ERROR_SLEEP, <<"error">>)
    /\ pc' = "for"
    /\ UNCHANGED <<file, STATS, LIMIT_TO_SUBMISSION_TITLED, POLL_INTERVAL_SECONDS, poll_interval, comment,
                   misspelling, text, saved, replies, streamDead, loaded>>

\* the handler exiting without save_stats
graceful_exit_NoSave ==
    /\ pc \in LoopPcs
    /\ io' = Effect("", 0, <<"shutdown">>)
    /\ pc' = "exited"
    /\ UNCHANGED <<file, STATS, LIMIT_TO_SUBMISSION_TITLED, POLL_INTERVAL_SECONDS, poll_interval, comment,
                   misspelling, text, saved, replies, streamDead, loaded>>

\* lines 116-122: SIGINT or SIGTERM, at any point of the loop
graceful_exit ==
    /\ pc \in LoopPcs
    /\ \E outcome \in SaveOutcomes :
        LET r == save_stats(STATS, file, outcome)
        IN  /\ file' = r.file
            /\ io' = Effect("", 0, <<"shutdown">> \o r.printed)
    /\ pc' = "exited"
    /\ UNCHANGED <<STATS, LIMIT_TO_SUBMISSION_TITLED, POLL_INTERVAL_SECONDS, poll_interval, comment,
                   misspelling, text, saved, replies, streamDead, loaded>>

Next ==
    \/ ImportModule
    \/ MainSetup
    \/ StreamYield
    \/ StreamPause
    \/ StreamRaises
    \/ StreamStopped
    \/ SleepPoll
    \/ Filter
    \/ FilterRaises
    \/ SelfCheck
    \/ SelfCheckRaises
    \/ Match
    \/ Reply
    \/ ReplyRaises
    \/ SaveComment
    \/ SaveCommentRaises
    \/ IncrTotal
    \/ IncrKey
    \/ SaveStats
    \/ Except
    \/ graceful_exit

Spec == Init /\ [][Next]_vars

-----------------------------------------------------------------------------
(* The pattern matcher on its own: find_misspelling applied to bounded texts *)

\* the pieces texts are built from: the correct name, misspellings, and
\* characters that do or do not continue a word
Vocabulary ==
    { <<"M", "b", "e", "u", "m", "o">>,
      <<"m", "B", "E", "U", "M", "O">>,
      <<"m", "b", "u", "e", "m", "o">>,
      <<"M", "b", "u", "e", "m", "O">>,
      <<"m", "b", "o", "m", "a">>,
      <<"M", "B", "O", "M", "A">>,
      <<"m", "b", "e", "e", "m", "o">>,
      <<" ">>, <<"!">>, <<"_">>, <<"x">> }

RECURSIVE TextsUpTo(_)
\* the texts of at most n pieces
TextsUpTo(n) ==
    IF n = 0 THEN {<<>>}
    ELSE LET shorter == TextsUpTo(n - 1)
         IN  shorter \cup {t \o p : t \in shorter, p \in Vocabulary}

Texts == TextsUpTo(MaxPieces)

InitFM ==
    /\ text \in Texts
    /\ misspelling = None
    /\ pc = "fm_call"
    /\ file = FileOf("missing", <<>>)
    /\ LIMIT_TO_SUBMISSION_TITLED = None
    /\ POLL_INTERVAL_SECONDS \in {60}
    /\ STATS = <<>>
    /\ loaded = <<>>
    /\ poll_interval = 0
    /\ comment = NoComment
    /\ saved = [c \in Comments |-> FALSE]
    /\ replies = [c \in Comments |-> 0]
    /\ streamDead = FALSE
    /\ io = Quiet

\* misspelling = find_misspelling(text)
FindCall ==
    /\ pc = "fm_call"
    /\ misspelling' = find_misspelling(text)
    /\ pc' = "fm_ret"
    /\ UNCHANGED <<file, STATS, LIMIT_TO_SUBMISSION_TITLED, POLL_INTERVAL_SECONDS, poll_interval, comment,
                   text, saved, replies, streamDead, loaded, io>>

NextFM == FindCall

SpecFM == InitFM /\ [][NextFM]_vars

-----------------------------------------------------------------------------
(* The loop under a range of configured poll intervals *)

\* values of POLL_INTERVAL_SECONDS around the floor, and the default
PollValues == (-2..12) \cup {60}

InitPoll ==
    /\ file \in {FileOf("missing", <<>>)}
    /\ LIMIT_TO_SUBMISSION_TITLED \in {Some(<<"T", "a">>)}
    /\ POLL_INTERVAL_SECONDS \in PollValues
    /\ STATS = <<>>
    /\ loaded = <<>>
    /\ poll_interval = 0
    /\ pc = "import"
    /\ comment = NoComment
    /\ misspelling = None
    /\ text = <<>>
    /\ saved = [c \in Comments |-> FALSE]
    /\ replies = [c \in Comments |-> 0]
    /\ streamDead = FALSE
    /\ io = Quiet

SpecPoll == InitPoll /\ [][Next]_vars

-----------------------------------------------------------------------------
(* Vocabulary of the properties *)

\* word w occurs in s as a whole word, letter case ignored: at some position,
\* with no word character right before it and none right after it
HasWholeWord(s, w) ==
    \E p \in 1..Len(s) :
        /\ p + Len(w) - 1 <= Len(s)
        /\ Lower(SubSeq(s, p, p + Len(w) - 1)) = Lower(w)
        /\ (p = 1 \/ ~IsWordChar(s[p - 1]))
        /\ (p + Len(w) - 1 = Len(s) \/ ~IsWordChar(s[p + Len(w)]))

\* the patterns with a whole-word occurrence in s
PatternsIn(s) == {i \in 1..Len(MISSPELLINGS) : HasWholeWord(s, MISSPELLINGS[i])}

\* the step's effect e printed the line tagged tag
PrintedIn(e, tag) == \E i \in 1..Len(e.printed) : e.printed[i] = tag

\* total_corrections is an integer equal to the sum of the integer counts
Consistent(stats) ==
    /\ stats["total_corrections"].ty = "int"
    /\ stats["misspellings"].ty = "dict"
    /\ stats["total_corrections"].n = SumCounts(stats["misspellings"].d)

\* file f holds exactly the stats
FileHolds(f, stats) == f.kind = "object" /\ json_load(f.members) = stats

-----------------------------------------------------------------------------
(* C1: a text containing the correct name Mbeumo as a whole word, in any    *)
(* letter case, gets no match (None) from find_misspelling, also when the   *)
(* text contains whole-word matches of misspelling patterns.                *)
C1_CorrectNameSuppresses ==
    (pc = "fm_ret" /\ HasWholeWord(text, CORRECT_NAME)) => misspelling = None

\* a text with the correct name in another letter case and a misspelling
C1_Witness ==
    /\ pc = "fm_ret"
    /\ HasWholeWord(text, CORRECT_NAME)
    /\ ~Contains(CORRECT_NAME, text)
    /\ PatternsIn(text) # {}
    /\ misspelling = None

-----------------------------------------------------------------------------
(* C2, as claimed: whatever the stats file held at startup, each time the   *)
(* update of lines 157-159 has completed total_corrections equals the sum   *)
(* of the per-misspelling counts.                                           *)
C2_AnyFile_TotalIsSum ==
    pc = "save_stats" => Consistent(STATS)

(* C2, amended: when the state load_stats returned has an integer total     *)
(* equal to the sum of its counts, then each time the update of lines       *)
(* 157-159 has completed total_corrections equals the sum of the counts.    *)
C2_TotalIsSum ==
    (pc = "save_stats" /\ Consistent(loaded)) => Consistent(STATS)

\* the second correction of a run that started from a consistent file
C2_Witness ==
    /\ pc = "save_stats"
    /\ Consistent(loaded)
    /\ STATS["total_corrections"].n >= loaded["total_corrections"].n + 2
    /\ Consistent(STATS)

-----------------------------------------------------------------------------
(* C3, as claimed: whenever the process has exited through the signal       *)
(* handler, the stats file holds exactly the in-memory stats.               *)
C3_ExitFileHoldsStats ==
    pc = "exited" => FileHolds(file, STATS)

(* C3, amended: whenever the process has exited through the signal handler  *)
(* and the handler's save_stats did not log a failure, the stats file holds *)
(* exactly the in-memory stats of that moment; a failed write is logged and *)
(* the process exits all the same.                                          *)
C3_ExitSavesUnlessWriteFails ==
    pc = "exited" =>
        /\ io.printed[1] = "shutdown"
        /\ (~PrintedIn(io, "stats_failed") => FileHolds(file, STATS))

\* the signal arrives between line 157 and line 159: the total counted in
\* memory and not yet saved is in the file at exit
C3_Witness ==
    /\ pc = "exited"
    /\ ~PrintedIn(io, "stats_failed")
    /\ Consistent(loaded)
    /\ STATS["total_corrections"].n = SumCounts(STATS["misspellings"].d) + 1
    /\ FileHolds(file, STATS)

-----------------------------------------------------------------------------
(* C4: once the reply has been posted, the loop goes from marking the       *)
(* comment saved to incrementing the total, to incrementing the count, to   *)
(* save_stats, and only then to the next comment: no step of that sequence  *)
(* is followed by anything but the next one.                                *)
AfterReplySuccessor ==
    [p \in {"save_comment", "incr_total", "incr_key", "save_stats"} |->
        CASE p = "save_comment" -> "incr_total"
          [] p = "incr_total" -> "incr_key"
          [] p = "incr_key" -> "save_stats"
          [] p = "save_stats" -> "for"]

C4_ReplySequenceCompletes ==
    [][(pc \in DOMAIN AfterReplySuccessor) => (pc' = AfterReplySuccessor[pc])]_vars

-----------------------------------------------------------------------------
(* C5: the loop ends only through the signal handler; every error caught    *)
(* by the except clause is logged, followed by the 60 second sleep, and the *)
(* loop is running afterwards.                                              *)
C5_LoopNeverTerminates ==
    [][ /\ pc \in LoopPcs => pc' \in LoopPcs \cup {"exited"}
        /\ pc' = "exited" => io'.printed[1] = "shutdown"
        /\ io'.feed = "error" => pc' = "except"
        /\ (pc = "except" /\ pc' # "exited") =>
              /\ pc' = "for"
              /\ io'.slept = ERROR_SLEEP
              /\ PrintedIn(io', "error") ]_vars

\* the recovery from an error raised after a reply was posted
C5_Witness ==
    /\ pc = "for"
    /\ io = Effect("", ERROR_SLEEP, <<"error">>)
    /\ ~streamDead
    /\ TotalReplies >= 1

-----------------------------------------------------------------------------
(* C6: the loop does not spin: each time it reaches the for statement it    *)
(* gets an answer from the feed (a comment, the caught-up signal, or an     *)
(* error followed by the recovery sleep), also after an error raised by the *)
(* comment stream itself.                                                   *)
C6_ResumesPolling ==
    [][(pc = "for" /\ pc' # "exited") => io'.feed \in {"item", "none", "error"}]_vars

-----------------------------------------------------------------------------
(* C7: load_stats returns total_corrections 0 and an empty misspellings     *)
(* mapping whenever the file is missing, unreadable, not JSON, not a JSON   *)
(* object, or an object with missing or wrongly typed fields.               *)
Malformed(f) ==
    \/ f.kind \in {"missing", "unreadable", "invalid", "nonobject"}
    \/ /\ f.kind = "object"
       /\ LET data == json_load(f.members)
          IN  \/ {"start_time", "total_corrections", "misspellings"} \ DOMAIN data # {}
              \/ data["start_time"].ty # "str"
              \/ data["total_corrections"].ty # "int"
              \/ data["misspellings"].ty # "dict"

C7_MalformedGivesDefaults ==
    (pc = "main" /\ Malformed(file)) =>
        /\ STATS["total_corrections"] = IntVal(0)
        /\ STATS["misspellings"] = DictVal(EmptyDict)

-----------------------------------------------------------------------------
(* C8: for every stats state of a run, a save_stats that writes the file    *)
(* followed by load_stats yields the same misspellings mapping and the same *)
(* total_corrections.                                                       *)
C8_SaveLoadRoundTrip ==
    pc \in LoopPcs \cup {"main", "exited"} =>
        LET back == load_stats(save_stats(STATS, file, "ok").file)
        IN  /\ back["misspellings"] = STATS["misspellings"]
            /\ back["total_corrections"] = STATS["total_corrections"]

\* the loop has saved counts of two misspellings, and loading gives them back
C8_Witness ==
    /\ pc = "for"
    /\ PrintedIn(io, "corrected")
    /\ ~PrintedIn(io, "stats_failed")
    /\ Cardinality(DOMAIN STATS["misspellings"].d) >= 2
    /\ load_stats(file)["misspellings"] = STATS["misspellings"]
    /\ load_stats(file)["total_corrections"] = STATS["total_corrections"]

-----------------------------------------------------------------------------
(* C9: a save_stats that fails in the loop is logged and not propagated:    *)
(* the in-memory stats are unchanged and the loop goes on to the next       *)
(* comment without the recovery sleep; a save that succeeds writes the      *)
(* whole of the in-memory counters, those of earlier failed saves included. *)
C9_SaveFailureNotFatal ==
    [][(pc = "save_stats" /\ pc' # "exited") =>
          /\ STATS' = STATS
          /\ pc' = "for"
          /\ io'.slept = 0
          /\ PrintedIn(io', "corrected")
          /\ (~PrintedIn(io', "stats_failed") => FileHolds(file', STATS'))]_vars

\* a failed save in the loop: logged, the file behind the memory, the loop on
C9_Witness ==
    /\ pc = "for"
    /\ PrintedIn(io, "stats_failed")
    /\ PrintedIn(io, "corrected")
    /\ Consistent(STATS)
    /\ ~FileHolds(file, STATS)

-----------------------------------------------------------------------------
(* C10: for a text without the correct name in which two or more different  *)
(* misspelling patterns have a whole-word match, find_misspelling returns a *)
(* match of the pattern that is earliest in MISSPELLINGS, wherever the      *)
(* matches are in the text.                                                 *)
C10_EarliestPatternWins ==
    (/\ pc = "fm_ret"
     /\ ~HasWholeWord(text, CORRECT_NAME)
     /\ Cardinality(PatternsIn(text)) >= 2) =>
        LET first == CHOOSE i \in PatternsIn(text) : \A j \in PatternsIn(text) : i <= j
        IN  /\ misspelling.some
            /\ Lower(misspelling.str) = MISSPELLINGS[first]
            /\ Contains(misspelling.str, text)

\* the later pattern of the list matches earlier in the text
C10_Witness ==
    /\ pc = "fm_ret"
    /\ text = KeyMboma \o <<" ">> \o KeyMbuemo
    /\ misspelling = Some(KeyMbuemo)

-----------------------------------------------------------------------------
\* word w occurs in s at position p as a whole word, letter case ignored
WholeWordAt(s, w, p) ==
    /\ p >= 1
    /\ p + Len(w) - 1 <= Len(s)
    /\ Lower(SubSeq(s, p, p + Len(w) - 1)) = Lower(w)
    /\ (p = 1 \/ ~IsWordChar(s[p - 1]))
    /\ (p + Len(w) - 1 = Len(s) \/ ~IsWordChar(s[p + Len(w)]))

\* the whole-word matches of misspelling patterns in s: <<pattern, position>>
MatchesIn(s) ==
    {o \in (1..Len(MISSPELLINGS)) \X (1..Len(s)) :
        WholeWordAt(s, MISSPELLINGS[o[1]], o[2])}

(* C11: for a text with exactly one whole-word match of a misspelling       *)
(* pattern and no whole-word occurrence of the correct name,                *)
(* find_misspelling returns exactly the matched substring of the text, in   *)
(* the letter case of the text.                                             *)
C11_SingleMatchReturnedAsWritten ==
    (/\ pc = "fm_ret"
     /\ ~HasWholeWord(text, CORRECT_NAME)
     /\ Cardinality(MatchesIn(text)) = 1) =>
        LET o == CHOOSE x \in MatchesIn(text) : TRUE
        IN  misspelling =
                Some(SubSeq(text, o[2], o[2] + Len(MISSPELLINGS[o[1]]) - 1))

\* a single match written in mixed case, not at the start of the text
C11_Witness ==
    /\ pc = "fm_ret"
    /\ ~HasWholeWord(text, CORRECT_NAME)
    /\ Cardinality(MatchesIn(text)) = 1
    /\ ~WholeWordAt(text, KeyMbuemo, 1)
    /\ misspelling = Some(<<"M", "b", "u", "e", "m", "O">>)

-----------------------------------------------------------------------------
(* C12: for every configured integer v the effective poll interval is the   *)
(* larger of v and 10, and each time the feed signals that it is caught up  *)
(* the loop sleeps once, for that interval, and then asks the feed again.   *)
C12_PollIntervalFloor ==
    /\ [](pc \in LoopPcs \cup {"exited"} =>
            /\ poll_interval >= POLL_INTERVAL_SECONDS
            /\ poll_interval >= 10
            /\ poll_interval \in {POLL_INTERVAL_SECONDS, 10})
    /\ [][ /\ io'.feed = "none" => pc' = "sleep_poll"
           /\ (pc = "sleep_poll" /\ pc' # "exited") =>
                 /\ io'.slept = poll_interval
                 /\ pc' = "for"
           /\ (io'.slept # 0) => (pc \in {"sleep_poll", "except"} /\ pc' = "for")
           /\ (pc = "for" /\ pc' # "exited") => io'.slept = 0 ]_vars

\* configured 5: the loop has slept 10 seconds after the caught-up signal
C12_Witness ==
    /\ pc = "for"
    /\ POLL_INTERVAL_SECONDS = 5
    /\ io = Effect("", 10, <<>>)

-----------------------------------------------------------------------------
(* C13: whatever the feed delivers, the same comment several times          *)
(* included, and whichever calls of reply or of mark-processed fail, every  *)
(* comment gets at most one reply from the bot.                             *)
C13_AtMostOneReply == \A c \in Comments : replies[c] <= 1

-----------------------------------------------------------------------------
\* the title of comment c contains the configured filter, letter case
\* ignored, or no filter is configured
TitleHasFilter(c) ==
    LET f == LIMIT_TO_SUBMISSION_TITLED
        title == CommentTable[c].title
    IN  \/ ~f.some
        \/ f.str = <<>>
        \/ /\ title.some
           /\ \E p \in 1..Len(title.str) :
                /\ p + Len(f.str) - 1 <= Len(title.str)
                /\ Lower(SubSeq(title.str, p, p + Len(f.str) - 1)) = Lower(f.str)

\* the author of comment c is the bot, letter case ignored
AuthorIsBot(c) ==
    LET author == CommentTable[c].author
    IN  author.some /\ Lower(author.str) = Lower(BotName)

\* the body of comment c has a misspelling find_misspelling reports
BodyMisspelt(c) ==
    /\ ~HasWholeWord(CommentTable[c].body, CORRECT_NAME)
    /\ PatternsIn(CommentTable[c].body) # {}

(* C14: a reply is posted to a comment only if its thread title contains    *)
(* the configured filter case-insensitively (or there is no filter), its    *)
(* author is not the bot (case-insensitively), find_misspelling matches its *)
(* body, and it is not already marked saved.                                *)
C14_ReplyOnlyIfGuards ==
    [][\A c \in Comments :
        (replies'[c] # replies[c]) =>
            /\ c = comment
            /\ replies'[c] = replies[c] + 1
            /\ TitleHasFilter(c)
            /\ ~AuthorIsBot(c)
            /\ BodyMisspelt(c)
            /\ ~saved[c]]_vars

\* a reply posted while a title filter is configured
C14_Witness ==
    /\ pc = "save_comment"
    /\ LIMIT_TO_SUBMISSION_TITLED = Some(<<"T", "a">>)
    /\ comment = 2
    /\ replies[2] = 1
    /\ ~saved[2]

-----------------------------------------------------------------------------
(* C15: when the stats loaded at startup had total_corrections equal to the *)
(* sum of the counts, every stats object written to the file, by save_stats *)
(* after a correction or by the signal handler at any point of the loop,    *)
(* has total_corrections equal to the sum of its counts.                    *)
C15_WrittenStatsConsistent ==
    [][(/\ file' # file
        /\ file'.kind = "object"
        /\ Consistent(loaded)) => Consistent(json_load(file'.members))]_vars

-----------------------------------------------------------------------------
\* the count of key k in the dict of counts d, 0 when k is absent
CountOf(d, k) == IF k \in DOMAIN d THEN d[k] ELSE 0

(* C16: recording a correction (lines 157-159 run to their end) adds        *)
(* exactly 1 to total_corrections and exactly 1 to the count under the      *)
(* lowercased matched form, a key absent before counting from 0; every      *)
(* other count and start_time stay as they were, and the stats handed to    *)
(* save_stats are the ones so recorded. Forms differing in letter case      *)
(* are counted under the same key.                                          *)
C16_RecordingAddsOne ==
    [][ /\ (pc' = "incr_key") => (pc = "incr_total")
        /\ (pc' = "save_stats") => (pc = "incr_key")
        /\ (pc = "incr_total" /\ pc' = "incr_key") =>
                /\ STATS["total_corrections"].ty = "int"
                /\ STATS'["total_corrections"] =
                        IntVal(STATS["total_corrections"].n + 1)
                /\ DOMAIN STATS' = DOMAIN STATS
                /\ \A k \in DOMAIN STATS \ {"total_corrections"} :
                        STATS'[k] = STATS[k]
        /\ (pc = "incr_key" /\ pc' = "save_stats") =>
                LET key == Lower(misspelling.str)
                    d == STATS["misspellings"].d
                    e == STATS'["misspellings"].d
                IN  /\ misspelling.some
                    /\ STATS'["misspellings"].ty = "dict"
                    /\ DOMAIN e = DOMAIN d \cup {key}
                    /\ e[key] = CountOf(d, key) + 1
                    /\ \A k \in DOMAIN d \ {key} : e[k] = d[k]
                    /\ DOMAIN STATS' = DOMAIN STATS
                    /\ \A k \in DOMAIN STATS \ {"misspellings"} :
                            STATS'[k] = STATS[k]
        /\ (pc = "save_stats") => (STATS' = STATS) ]_vars

\* "mbuemo" of comment 2 and "Mbuemo" of comment 1 counted under one new key
C16_Witness ==
    /\ pc = "save_stats"
    /\ comment = 1
    /\ misspelling = Some(<<"M", "b", "u", "e", "m", "o">>)
    /\ replies[1] = 1
    /\ replies[2] = 1
    /\ loaded = FreshStats
    /\ STATS["total_corrections"] = IntVal(2)
    /\ DOMAIN STATS["misspellings"].d = {KeyMbuemo}
    /\ STATS["misspellings"].d[KeyMbuemo] = 2

-----------------------------------------------------------------------------
\* the steps of lines 135-149, from the delivered comment to the reply
CheckPcs == {"filter", "self_check", "match"}

(* C17: a comment excluded by the title filter, written by the bot, without *)
(* a misspelling or already marked saved is skipped: on the way to the skip *)
(* nothing is replied, marked, counted, written to the file or printed and  *)
(* nobody sleeps, and the loop goes straight back to the feed for the next  *)
(* comment. Only such comments are skipped.                                 *)
C17_SkipHasNoEffect ==
    [][ /\ (pc \in CheckPcs /\ pc' # "exited") =>
                /\ replies' = replies
                /\ saved' = saved
                /\ STATS' = STATS
                /\ file' = file
                /\ io' = Quiet
                /\ comment' = comment
        /\ (pc \in CheckPcs /\ pc' = "for") =>
                \/ ~TitleHasFilter(comment)
                \/ AuthorIsBot(comment)
                \/ ~BodyMisspelt(comment)
                \/ saved[comment]
        /\ (pc = "filter" /\ ~TitleHasFilter(comment)) =>
                pc' \in {"for", "except", "exited"}
        /\ (pc = "self_check" /\ AuthorIsBot(comment)) =>
                pc' \in {"for", "except", "exited"}
        /\ (pc = "match" /\ (~BodyMisspelt(comment) \/ saved[comment])) =>
                pc' \in {"for", "exited"}
        /\ (pc' = "reply") => (pc = "match")
        /\ (pc = "for" /\ pc' = "filter") => io' = Effect("item", 0, <<>>) ]_vars

\* comment 1, answered and saved before, has just been skipped at line 149
C17_Witness ==
    /\ pc = "for"
    /\ io = Quiet
    /\ comment = 1
    /\ saved[1]
    /\ replies[1] = 1
    /\ text = CommentTable[1].body
    /\ misspelling # None

-----------------------------------------------------------------------------
\* the steps of lines 154-160, after the reply
AfterReplyPcs == {"save_comment", "incr_total", "incr_key", "save_stats"}

(* C18: when comment.reply raises, the comment is not marked saved, the     *)
(* counters stay as they were and the file is not written, neither by the   *)
(* failing step nor by the except clause that follows. Marking and counting *)
(* happen only on the way from a reply that returned: a saved comment has a *)
(* reply, and lines 154-160 are entered only by the step that posts one.    *)
C18_NothingRecordedWithoutReply ==
    /\ [](\A c \in Comments : saved[c] => replies[c] >= 1)
    /\ [](pc \in AfterReplyPcs => replies[comment] >= 1)
    /\ [][ /\ (pc \in {"reply", "except"} /\ pc' \in {"except", "for"}) =>
                /\ saved' = saved
                /\ STATS' = STATS
                /\ file' = file
                /\ replies' = replies
           /\ (pc = "reply" /\ pc' # "exited") =>
                \/ pc' = "except" /\ replies' = replies
                \/ /\ pc' = "save_comment"
                   /\ replies' = [replies EXCEPT ![comment] = @ + 1]
           /\ (pc' = "save_comment") => (pc = "reply")
           /\ (pc' \in AfterReplyPcs \ {"save_comment"}) => (pc \in AfterReplyPcs)
           /\ (saved' # saved) => (pc = "save_comment")
           /\ (STATS' # STATS) => (pc \in {"import", "incr_total", "incr_key"})
           /\ (file' # file) => (pc = "save_stats" \/ pc' = "exited") ]_vars

\* comment.reply has raised for comment 1: no reply, not saved, nothing counted
C18_Witness ==
    /\ pc = "except"
    /\ comment = 1
    /\ text = CommentTable[1].body
    /\ misspelling = Some(<<"M", "b", "u", "e", "m", "o">>)
    /\ replies[1] = 0
    /\ ~saved[1]
    /\ STATS = loaded

-----------------------------------------------------------------------------
\* total_corrections of the stats, when it is a number
TotalOf(stats) == stats["total_corrections"].n

(* C19: at every moment of a run total_corrections exceeds the value loaded *)
(* at startup by at most the number of replies posted so far, and neither   *)
(* total_corrections nor any per-misspelling count ever decreases (no key   *)
(* disappears).                                                             *)
C19_TotalBoundedByReplies ==
    /\ [](pc \in LoopPcs \cup {"exited"} =>
            /\ STATS["total_corrections"].ty = loaded["total_corrections"].ty
            /\ IF STATS["total_corrections"].ty = "int"
               THEN TotalOf(STATS) - TotalOf(loaded) <= TotalReplies
               ELSE STATS["total_corrections"] = loaded["total_corrections"])
    /\ [][(pc # "import") =>
            /\ STATS'["total_corrections"].ty = STATS["total_corrections"].ty
            /\ IF STATS["total_corrections"].ty = "int"
               THEN TotalOf(STATS') >= TotalOf(STATS)
               ELSE STATS'["total_corrections"] = STATS["total_corrections"]
            /\ STATS'["misspellings"].ty = STATS["misspellings"].ty
            /\ IF STATS["misspellings"].ty = "dict"
               THEN \A k \in DOMAIN STATS["misspellings"].d :
                        /\ k \in DOMAIN STATS'["misspellings"].d
                        /\ STATS'["misspellings"].d[k] >= STATS["misspellings"].d[k]
               ELSE STATS'["misspellings"] = STATS["misspellings"] ]_vars

\* two replies posted and one of them counted
C19_Witness ==
    /\ pc = "for"
    /\ TotalReplies = 2
    /\ STATS["total_corrections"].ty = "int"
    /\ TotalOf(STATS) = TotalOf(loaded) + 1

====
